---- MODULE Spec2Model ----
(***************************************************************************)
(* Multilayer SIR simulation engine (src/src/simulation.ts).               *)
(*                                                                         *)
(* Numbers are fixed point.  A value returned by Math.random() is d/10     *)
(* with d in 0..9 (so it is always < 1); spreadRate, recoveryRate and      *)
(* connectivity are tenths (0..10); an edge weight is hundredths           *)
(* (0.3 + r*0.7 = (30 + 7d)/100, and 100 is weight 1.0).                   *)
(*                                                                         *)
(* Math.random() is the ambient random source.  The draws one call         *)
(* consumes are a stream: draw number k (0-based) of the call is           *)
(* pat[(k % Len(pat)) + 1] for a pattern pat chosen per call.              *)
(***************************************************************************)
EXTENDS Integers, Sequences, FiniteSets, TLC

\* ------------------------------------------------------------------------
\* Bounds of the model and the values its inputs are drawn from
\* ------------------------------------------------------------------------
MaxAgents == 2
MaxLayers == 2

DrawVals == {0, 9}
SpreadRates == {0, 10}
RecoveryRates == {0, 5, 10}
ConnVals == {5}
FreqVals == {1, 2}
IterVals == {1, 2, 3}
CountVals == 0..(MaxAgents + 1)
Topologies == {"random", "smallworld", "scalefree"}

\* The draws of one call alternate between two values
Streams == DrawVals \X DrawVals

\* ------------------------------------------------------------------------
\* Random source and arithmetic
\* ------------------------------------------------------------------------

\* k-th value (0-based) that Math.random() returns in a call, in tenths
Draw(pat, k) == pat[(k % Len(pat)) + 1]

\* 0.3 + Math.random() * 0.7, in hundredths
Weight(d) == 30 + 7 * d

\* Math.floor(Math.random() * n)
RandomIndex(d, n) == (d * n) \div 10

\* JavaScript a % b for b > 0: the result has the sign of the dividend
JsRem(a, b) == IF a >= 0 THEN a % b ELSE 0 - ((0 - a) % b)

Min(a, b) == IF a < b THEN a ELSE b
Max(a, b) == IF a > b THEN a ELSE b

Zeros(n) == [i \in 1..n |-> 0]

\* infectedByLayer: null = initial seeder or not infected
null == -1

Edge(s, t, w) == [source |-> s, target |-> t, weight |-> w]

\* ------------------------------------------------------------------------
\* Network construction.  A generator returns [edges, k]: the edge list and
\* the number of draws consumed so far in the call.  adj is the set of
\* <<i, j>> with adj[i][j] = true.
\* ------------------------------------------------------------------------

\* Math.random() < connectivity
Connects(d, connectivity) == d < connectivity

\* for i, for j = i + 1: the loop of buildRandomLayer
RECURSIVE RandomLoop_Mut(_, _, _, _, _, _)
RandomLoop_Mut(i, j, numAgents, connectivity, pat, acc) ==
  IF i >= numAgents THEN acc
  ELSE IF j >= numAgents
       THEN RandomLoop_Mut(i + 1, i + 2, numAgents, connectivity, pat, acc)
       ELSE IF Connects(Draw(pat, acc.k), connectivity)
            THEN RandomLoop_Mut(i, j + 1, numAgents, connectivity, pat,
                   [edges |-> acc.edges \o
                                <<Edge(i, j, Weight(Draw(pat, acc.k + 1))),
                                  Edge(j, i, Weight(Draw(pat, acc.k + 2)))>>,
                    k |-> acc.k + 3])
            ELSE RandomLoop_Mut(i, j + 1, numAgents, connectivity, pat,
                                [acc EXCEPT !.k = @ + 1])
RECURSIVE RandomLoop(_, _, _, _, _, _)
RandomLoop(i, j, numAgents, connectivity, pat, acc) ==
  IF i >= numAgents THEN acc
  ELSE IF j >= numAgents
       THEN RandomLoop(i + 1, i + 2, numAgents, connectivity, pat, acc)
       ELSE IF Connects(Draw(pat, acc.k), connectivity)
            THEN LET weight == Weight(Draw(pat, acc.k + 1))
                 IN RandomLoop(i, j + 1, numAgents, connectivity, pat,
                      [edges |-> acc.edges \o <<Edge(i, j, weight), Edge(j, i, weight)>>,
                       k |-> acc.k + 2])
            ELSE RandomLoop(i, j + 1, numAgents, connectivity, pat,
                            [acc EXCEPT !.k = @ + 1])

buildRandomLayer_Mut(numAgents, connectivity, pat, k) ==
  RandomLoop(0, 0, numAgents, connectivity, pat, [edges |-> <<>>, k |-> k])
buildRandomLayer(numAgents, connectivity, pat, k) ==
  RandomLoop(0, 1, numAgents, connectivity, pat, [edges |-> <<>>, k |-> k])

\* The final loop of buildSmallWorldLayer and of buildScaleFreeLayer: one
\* weighted pair of edges for every i < j with adj[i][j]
RECURSIVE AdjToEdges(_, _, _, _, _, _)
AdjToEdges(i, j, numAgents, adj, pat, acc) ==
  IF i >= numAgents THEN acc
  ELSE IF j >= numAgents
       THEN AdjToEdges(i + 1, i + 2, numAgents, adj, pat, acc)
       ELSE IF <<i, j>> \in adj
            THEN LET weight == Weight(Draw(pat, acc.k))
                 IN AdjToEdges(i, j + 1, numAgents, adj, pat,
                      [edges |-> acc.edges \o <<Edge(i, j, weight), Edge(j, i, weight)>>,
                       k |-> acc.k + 1])
            ELSE AdjToEdges(i, j + 1, numAgents, adj, pat, acc)

\* let beta = 0.1, in tenths
beta == 1

\* k = min(max(2, round(connectivity * numAgents * 0.5) * 2), numAgents - 1)
SmallWorldK(numAgents, connectivity) ==
  Min(Max(2, ((connectivity * numAgents + 10) \div 20) * 2), numAgents - 1)

\* Create a ring lattice: m <= k / 2 is 2m <= k
RingLattice(numAgents, kk) ==
  UNION {{<<i, (i + m) % numAgents>>, <<(i + m) % numAgents, i>>} :
           <<i, m>> \in {<<a, b>> \in (0..(numAgents - 1)) \X (1..numAgents) :
                           2 * b <= kk}}

\* while ((newJ === i || adj[i][newJ]) && attempts < numAgents)
RECURSIVE RetryTarget(_, _, _, _, _, _, _)
RetryTarget(newJ, attempts, i, numAgents, adj, pat, k) ==
  IF (newJ = i \/ <<i, newJ>> \in adj) /\ attempts < numAgents
  THEN RetryTarget(RandomIndex(Draw(pat, k), numAgents), attempts + 1,
                   i, numAgents, adj, pat, k + 1)
  ELSE [newJ |-> newJ, k |-> k, attempts |-> attempts]

\* Rewire: for i, for m <= k / 2.  acc.rewirings is a log with one entry per
\* rewired lattice edge: its source i and old target j, the target newJ the
\* retry loop ended on, whether newJ is i itself or already a neighbour of
\* i, and whether a replacement edge was added.
RECURSIVE Rewire_Mut(_, _, _, _, _, _)
Rewire_Mut(i, m, numAgents, kk, pat, acc) ==
  IF i >= numAgents THEN acc
  ELSE IF 2 * m > kk THEN Rewire_Mut(i + 1, 1, numAgents, kk, pat, acc)
  ELSE LET j == (i + m) % numAgents
       IN IF Draw(pat, acc.k) < beta
          THEN LET removed == acc.adj \ {<<i, j>>, <<j, i>>}
                   first == RandomIndex(Draw(pat, acc.k + 1), numAgents)
                   r == RetryTarget(first, 0, i, numAgents, removed, pat, acc.k + 2)
                   free == <<i, r.newJ>> \notin removed
                   added == IF free
                            THEN removed \cup {<<i, r.newJ>>, <<r.newJ, i>>}
                            ELSE removed
                   entry == [source |-> i, old |-> j, newJ |-> r.newJ,
                             retries |-> r.attempts,
                             self |-> r.newJ = i,
                             neighbour |-> <<i, r.newJ>> \in removed,
                             added |-> added # removed]
               IN Rewire_Mut(i, m + 1, numAgents, kk, pat,
                    [adj |-> added, k |-> r.k,
                     rewirings |-> Append(acc.rewirings, entry)])
          ELSE Rewire_Mut(i, m + 1, numAgents, kk, pat, [acc EXCEPT !.k = @ + 1])
RECURSIVE Rewire_KeepOld(_, _, _, _, _, _)
Rewire_KeepOld(i, m, numAgents, kk, pat, acc) ==
  IF i >= numAgents THEN acc
  ELSE IF 2 * m > kk THEN Rewire_KeepOld(i + 1, 1, numAgents, kk, pat, acc)
  ELSE LET j == (i + m) % numAgents
       IN IF Draw(pat, acc.k) < beta
          THEN LET removed == acc.adj
                   first == RandomIndex(Draw(pat, acc.k + 1), numAgents)
                   r == RetryTarget(first, 0, i, numAgents, removed, pat, acc.k + 2)
                   free == r.newJ # i /\ <<i, r.newJ>> \notin removed
                   added == IF free
                            THEN removed \cup {<<i, r.newJ>>, <<r.newJ, i>>}
                            ELSE removed
                   entry == [source |-> i, old |-> j, newJ |-> r.newJ,
                             retries |-> r.attempts,
                             self |-> r.newJ = i,
                             neighbour |-> <<i, r.newJ>> \in removed,
                             added |-> added # removed]
               IN Rewire_KeepOld(i, m + 1, numAgents, kk, pat,
                    [adj |-> added, k |-> r.k,
                     rewirings |-> Append(acc.rewirings, entry)])
          ELSE Rewire_KeepOld(i, m + 1, numAgents, kk, pat, [acc EXCEPT !.k = @ + 1])
RECURSIVE Rewire(_, _, _, _, _, _)
Rewire(i, m, numAgents, kk, pat, acc) ==
  IF i >= numAgents THEN acc
  ELSE IF 2 * m > kk THEN Rewire(i + 1, 1, numAgents, kk, pat, acc)
  ELSE LET j == (i + m) % numAgents
       IN IF Draw(pat, acc.k) < beta
          THEN LET removed == acc.adj \ {<<i, j>>, <<j, i>>}
                   first == RandomIndex(Draw(pat, acc.k + 1), numAgents)
                   r == RetryTarget(first, 0, i, numAgents, removed, pat, acc.k + 2)
                   free == r.newJ # i /\ <<i, r.newJ>> \notin removed
                   added == IF free
                            THEN removed \cup {<<i, r.newJ>>, <<r.newJ, i>>}
                            ELSE removed
                   entry == [source |-> i, old |-> j, newJ |-> r.newJ,
                             retries |-> r.attempts,
                             self |-> r.newJ = i,
                             neighbour |-> <<i, r.newJ>> \in removed,
                             added |-> added # removed]
               IN Rewire(i, m + 1, numAgents, kk, pat,
                    [adj |-> added, k |-> r.k,
                     rewirings |-> Append(acc.rewirings, entry)])
          ELSE Rewire(i, m + 1, numAgents, kk, pat, [acc EXCEPT !.k = @ + 1])

\* adj after the ring lattice and the rewiring, lines 65-104
SmallWorldAdj(numAgents, connectivity, pat, k) ==
  LET kk == SmallWorldK(numAgents, connectivity)
  IN Rewire(0, 1, numAgents, kk, pat,
            [adj |-> RingLattice(numAgents, kk), k |-> k, rewirings |-> <<>>])

buildSmallWorldLayer(numAgents, connectivity, pat, k) ==
  LET rewired == SmallWorldAdj(numAgents, connectivity, pat, k)
  IN AdjToEdges(0, 1, numAgents, rewired.adj, pat, [edges |-> <<>>, k |-> rewired.k])

\* m = Math.max(1, Math.round(connectivity * 3))
ScaleFreeM(connectivity) == Max(1, (3 * connectivity + 5) \div 10)

\* Start with a small clique
Clique_Mut(initNodes) ==
  {<<i, j>> \in ((initNodes - 2)..(initNodes - 1)) \X ((initNodes - 2)..(initNodes - 1)) :
     i # j /\ i >= 0}
Clique(initNodes) ==
  {<<i, j>> \in (0..(initNodes - 1)) \X (0..(initNodes - 1)) : i # j}

\* degrees.slice(0, i).reduce((a, b) => a + b, 0)
RECURSIVE SumDegrees(_, _)
SumDegrees(degrees, i) ==
  IF i <= 0 THEN 0 ELSE degrees[i] + SumDegrees(degrees, i - 1)

\* for (let j = 0; j < i; j++): the first j with rand <= cumDeg and
\* !adj[i][j], or -1 when the loop ends without one
RECURSIVE PickTarget(_, _, _, _, _, _, _)
PickTarget(j, cumDeg, i, d, totalDeg, degrees, adj) ==
  IF j >= i THEN -1
  ELSE LET cum == cumDeg + degrees[j + 1]
       IN IF d * totalDeg <= 10 * cum /\ <<i, j>> \notin adj
          THEN j
          ELSE PickTarget(j + 1, cum, i, d, totalDeg, degrees, adj)

\* The node the draw's threshold selects: the first j < i with
\* rand <= cumDeg (line 149, first conjunct), or -1 when there is none
RECURSIVE Threshold(_, _, _, _, _, _)
Threshold(j, cumDeg, i, d, totalDeg, degrees) ==
  IF j >= i THEN -1
  ELSE LET cum == cumDeg + degrees[j + 1]
       IN IF d * totalDeg <= 10 * cum
          THEN j
          ELSE Threshold(j + 1, cum, i, d, totalDeg, degrees)

\* while (added < m && attempts < i * 3).  acc.attempts is a log with one
\* entry per iteration: the new node, the node the threshold selected,
\* whether that node was already a neighbour, and the node the edge went to
\* (-1 when the iteration added no edge).
RECURSIVE Attach_Mut(_, _, _, _, _, _, _)
Attach_Mut(i, m, added, attempts, totalDeg, pat, acc) ==
  IF added < m /\ attempts <= i * 3
  THEN LET d == Draw(pat, acc.k)
           j == PickTarget(0, 0, i, d, totalDeg, acc.degrees, acc.adj)
           selected == Threshold(0, 0, i, d, totalDeg, acc.degrees)
           entry == [node |-> i, selected |-> selected,
                     neighbour |-> <<i, selected>> \in acc.adj,
                     target |-> j]
       IN IF j >= 0
          THEN Attach_Mut(i, m, added + 1, attempts + 1, totalDeg + 2, pat,
                 [adj |-> acc.adj \cup {<<i, j>>, <<j, i>>},
                  degrees |-> [acc.degrees EXCEPT ![i + 1] = @ + 1, ![j + 1] = @ + 1],
                  k |-> acc.k + 1,
                  attempts |-> Append(acc.attempts, entry)])
          ELSE Attach_Mut(i, m, added, attempts + 1, totalDeg, pat,
                      [acc EXCEPT !.k = @ + 1, !.attempts = Append(@, entry)])
  ELSE acc
RECURSIVE Attach(_, _, _, _, _, _, _)
Attach(i, m, added, attempts, totalDeg, pat, acc) ==
  IF added < m /\ attempts < i * 3
  THEN LET d == Draw(pat, acc.k)
           j == PickTarget(0, 0, i, d, totalDeg, acc.degrees, acc.adj)
           selected == Threshold(0, 0, i, d, totalDeg, acc.degrees)
           entry == [node |-> i, selected |-> selected,
                     neighbour |-> <<i, selected>> \in acc.adj,
                     target |-> j]
       IN IF j >= 0
          THEN Attach(i, m, added + 1, attempts + 1, totalDeg + 2, pat,
                 [adj |-> acc.adj \cup {<<i, j>>, <<j, i>>},
                  degrees |-> [acc.degrees EXCEPT ![i + 1] = @ + 1, ![j + 1] = @ + 1],
                  k |-> acc.k + 1,
                  attempts |-> Append(acc.attempts, entry)])
          ELSE Attach(i, m, added, attempts + 1, totalDeg, pat,
                      [acc EXCEPT !.k = @ + 1, !.attempts = Append(@, entry)])
  ELSE acc

\* Add remaining nodes with preferential attachment
RECURSIVE AddNodes(_, _, _, _, _)
AddNodes(i, numAgents, m, pat, acc) ==
  IF i >= numAgents THEN acc
  ELSE LET sum == SumDegrees(acc.degrees, i)
           totalDeg == IF sum = 0 THEN 1 ELSE sum
       IN AddNodes(i + 1, numAgents, m, pat,
                   Attach(i, m, 0, 0, totalDeg, pat, acc))

\* adj and degrees after the clique and the attachment loop, lines 120-160
ScaleFreeAdj(numAgents, connectivity, pat, k) ==
  LET m == ScaleFreeM(connectivity)
      initNodes == Min(m + 1, numAgents)
      degrees == [i \in 1..numAgents |-> IF i <= initNodes THEN initNodes - 1 ELSE 0]
  IN AddNodes(initNodes, numAgents, m, pat,
              [adj |-> Clique(initNodes), degrees |-> degrees, k |-> k,
               attempts |-> <<>>])

buildScaleFreeLayer(numAgents, connectivity, pat, k) ==
  LET grown == ScaleFreeAdj(numAgents, connectivity, pat, k)
  IN AdjToEdges(0, 1, numAgents, grown.adj, pat, [edges |-> <<>>, k |-> grown.k])

\* buildLayer(id, numAgents, config): [layer, k]
buildLayer_Mut(id, numAgents, config, pat, k) ==
  LET g == IF config.topology = "smallworld"
           THEN buildSmallWorldLayer(numAgents, config.connectivity, pat, k)
           ELSE IF config.topology = "scalefree"
                THEN buildScaleFreeLayer(numAgents, config.connectivity, pat, k)
                ELSE buildRandomLayer(numAgents, config.connectivity, pat, k)
  IN [layer |-> [id |-> id, edges |-> g.edges,
                 connectivity |-> config.frequency,
                 frequency |-> config.connectivity],
      k |-> g.k]
buildLayer(id, numAgents, config, pat, k) ==
  LET g == IF config.topology = "smallworld"
           THEN buildSmallWorldLayer(numAgents, config.connectivity, pat, k)
           ELSE IF config.topology = "scalefree"
                THEN buildScaleFreeLayer(numAgents, config.connectivity, pat, k)
                ELSE buildRandomLayer(numAgents, config.connectivity, pat, k)
  IN [layer |-> [id |-> id, edges |-> g.edges,
                 connectivity |-> config.connectivity,
                 frequency |-> config.frequency],
      k |-> g.k]

\* agents.push({id: i, state: 'S', infectedByLayer: null, infectedCount: ...})
newAgent(i, numLayers) ==
  [id |-> i, state |-> "S", infectedByLayer |-> null,
   infectedCount |-> Zeros(numLayers)]

\* layerConfigs.map((cfg, idx) => buildLayer(idx, numAgents, cfg))
RECURSIVE MapLayers(_, _, _, _, _)
MapLayers(idx, numAgents, layerConfigs, pat, acc) ==
  IF idx >= Len(layerConfigs) THEN acc
  ELSE LET b == buildLayer(idx, numAgents, layerConfigs[idx + 1], pat, acc.k)
       IN MapLayers(idx + 1, numAgents, layerConfigs, pat,
                    [layers |-> Append(acc.layers, b.layer), k |-> b.k])

\* buildNetwork(numAgents, layerConfigs)
buildNetwork(numAgents, layerConfigs, pat) ==
  [agents |-> [i \in 1..numAgents |-> newAgent(i - 1, Len(layerConfigs))],
   layers |-> MapLayers(0, numAgents, layerConfigs, pat,
                        [layers |-> <<>>, k |-> 0]).layers]

\* ------------------------------------------------------------------------
\* simulateStep
\* ------------------------------------------------------------------------

\* adj[edge.source].set(edge.target, edge.weight) on the Map of one agent,
\* kept as a sequence of <<target, weight>> in insertion order
RECURSIVE MapSet(_, _, _, _)
MapSet(m, i, key, val) ==
  IF i > Len(m) THEN Append(m, <<key, val>>)
  ELSE IF m[i][1] = key THEN [m EXCEPT ![i] = <<key, val>>]
  ELSE MapSet(m, i + 1, key, val)

\* The neighbour map of agent a in one layer: adj[a] of layerAdj
RECURSIVE Neighbors(_, _, _, _)
Neighbors(edges, a, i, m) ==
  IF i > Len(edges) THEN m
  ELSE IF edges[i].source = a
       THEN Neighbors(edges, a, i + 1, MapSet(m, 1, edges[i].target, edges[i].weight))
       ELSE Neighbors(edges, a, i + 1, m)

\* (iter - 1) % layer.frequency !== 0  =>  continue
Fires_Mut(layer, iter) == JsRem(iter, layer.frequency) = 0
Fires(layer, iter) == JsRem(iter - 1, layer.frequency) = 0

\* neighbor.state === 'S'
Infectable_Mut(neighbor) == neighbor.state # "I"
Infectable(neighbor) == neighbor.state = "S"

\* Math.random() < spreadRate * weight
Transmits_Mut(d, spreadRate, weight) == d * 100 < spreadRate * weight - 100
Transmits(d, spreadRate, weight) == d * 100 < spreadRate * weight

\* Math.random() < recoveryRate
Recovers_Mut(d, recoveryRate) == d > recoveryRate
Recovers(d, recoveryRate) == d < recoveryRate

\* agent.infectedCount[layer.id]++ (an index past the end grows the array)
IncCount_Skip(cnt, layerId) == cnt
IncCount_Mut(cnt, layerId) ==
  LET padded == IF layerId + 2 > Len(cnt)
                THEN cnt \o Zeros(layerId + 2 - Len(cnt))
                ELSE cnt
  IN [padded EXCEPT ![layerId + 2] = @ + 1]
IncCount(cnt, layerId) ==
  LET padded == IF layerId + 1 > Len(cnt)
                THEN cnt \o Zeros(layerId + 1 - Len(cnt))
                ELSE cnt
  IN [padded EXCEPT ![layerId + 1] = @ + 1]

\* activeLayers.add(layer.id)
MarkActive_Mut(active, layerId) == active
MarkActive(active, layerId) == active \cup {layerId}

\* The body of the successful transmission, lines 282-290.  st.passes is a
\* log of the call: the last entry is the pass of the layer being processed.
Infect_Mut(st, agentId, neighborId, layerId) ==
  LET a1 == [st.agents EXCEPT
               ![neighborId + 1].state = "I",
               ![agentId + 1].infectedByLayer =
                  IF @ = null THEN layerId ELSE @]
      a2 == [a1 EXCEPT ![agentId + 1].infectedCount = IncCount(@, layerId)]
      np == Len(st.passes)
  IN [st EXCEPT
        !.agents = a2,
        !.active = MarkActive(@, layerId),
        !.passes = [@ EXCEPT ![np].infections =
                      Append(@, [source |-> agentId, target |-> neighborId])]]
Infect(st, agentId, neighborId, layerId) ==
  LET a1 == [st.agents EXCEPT
               ![neighborId + 1].state = "I",
               ![neighborId + 1].infectedByLayer =
                  IF @ = null THEN layerId ELSE @]
      a2 == [a1 EXCEPT ![agentId + 1].infectedCount = IncCount(@, layerId)]
      np == Len(st.passes)
  IN [st EXCEPT
        !.agents = a2,
        !.active = MarkActive(@, layerId),
        !.passes = [@ EXCEPT ![np].infections =
                      Append(@, [source |-> agentId, target |-> neighborId])]]

\* neighbors.forEach(...) for one spreading agent
RECURSIVE SpreadFrom(_, _, _, _, _, _, _)
SpreadFrom(st, nbrs, i, agentId, layerId, spreadRate, pat) ==
  IF i > Len(nbrs) THEN st
  ELSE LET neighborId == nbrs[i][1]
           weight == nbrs[i][2]
       IN IF Infectable(st.agents[neighborId + 1])
          THEN LET d == Draw(pat, st.k)
                   st1 == [st EXCEPT !.k = @ + 1]
               IN IF Transmits(d, spreadRate, weight)
                  THEN SpreadFrom(Infect(st1, agentId, neighborId, layerId),
                                  nbrs, i + 1, agentId, layerId, spreadRate, pat)
                  ELSE SpreadFrom(st1, nbrs, i + 1, agentId, layerId, spreadRate, pat)
          ELSE SpreadFrom(st, nbrs, i + 1, agentId, layerId, spreadRate, pat)

\* agents.filter(a => a.state === 'I'), as the sequence of their ids
RECURSIVE CurrentlyInfected(_, _)
CurrentlyInfected(ags, i) ==
  IF i > Len(ags) THEN <<>>
  ELSE IF ags[i].state = "I"
       THEN <<ags[i].id>> \o CurrentlyInfected(ags, i + 1)
       ELSE CurrentlyInfected(ags, i + 1)

\* for (let agent of currentlyInfected) { ... }
RECURSIVE SpreadPass_Mut(_, _, _, _, _, _)
SpreadPass_Mut(st, snapshot, i, layer, spreadRate, pat) ==
  LET live == CurrentlyInfected(st.agents, 1)
  IN IF i > Len(live) THEN st
     ELSE SpreadPass_Mut(
            SpreadFrom(st, Neighbors(layer.edges, live[i], 1, <<>>), 1,
                       live[i], layer.id, spreadRate, pat),
            snapshot, i + 1, layer, spreadRate, pat)
RECURSIVE SpreadPass(_, _, _, _, _, _)
SpreadPass(st, snapshot, i, layer, spreadRate, pat) ==
  IF i > Len(snapshot) THEN st
  ELSE SpreadPass(
         SpreadFrom(st, Neighbors(layer.edges, snapshot[i], 1, <<>>), 1,
                    snapshot[i], layer.id, spreadRate, pat),
         snapshot, i + 1, layer, spreadRate, pat)

\* for (let layer of layers) { ... }: the spreading phase.  Each firing
\* layer appends one entry to st.passes: its id, the snapshot it took and
\* the agents that were Susceptible when its pass began.
RECURSIVE SpreadLayers(_, _, _, _, _, _)
SpreadLayers(st, lys, li, spreadRate, iter, pat) ==
  IF li > Len(lys) THEN st
  ELSE IF ~Fires(lys[li], iter)
       THEN SpreadLayers(st, lys, li + 1, spreadRate, iter, pat)
       ELSE LET snapshot == CurrentlyInfected(st.agents, 1)
                pass == [layer |-> lys[li].id,
                         snapshot |-> snapshot,
                         susceptible |-> {i \in 0..(Len(st.agents) - 1) :
                                            st.agents[i + 1].state = "S"},
                         infections |-> <<>>]
                st1 == [st EXCEPT !.passes = Append(@, pass)]
                adjLayer == [lys[li] EXCEPT !.edges = lys[lys[li].id + 1].edges]
            IN SpreadLayers(SpreadPass(st1, snapshot, 1, adjLayer, spreadRate, pat),
                            lys, li + 1, spreadRate, iter, pat)

\* Recovery phase (after all layers fire).  st.recoveries is a log with one
\* entry per evaluation of Math.random() < recoveryRate: the agent and the draw.
RECURSIVE RecoveryPhase_Mut(_, _, _, _)
RecoveryPhase_Mut(st, i, recoveryRate, pat) ==
  IF i > Len(st.agents) THEN st
  ELSE IF st.agents[i].state # "R"
       THEN LET d == Draw(pat, st.k)
                st1 == [st EXCEPT !.k = @ + 1,
                                  !.recoveries = Append(@, [agent |-> st.agents[i].id,
                                                            draw |-> d])]
            IN IF Recovers(d, recoveryRate)
               THEN RecoveryPhase_Mut([st1 EXCEPT !.agents[i].state = "R"],
                                      i + 1, recoveryRate, pat)
               ELSE RecoveryPhase_Mut(st1, i + 1, recoveryRate, pat)
       ELSE RecoveryPhase_Mut(st, i + 1, recoveryRate, pat)
RECURSIVE RecoveryPhase(_, _, _, _)
RecoveryPhase(st, i, recoveryRate, pat) ==
  IF i > Len(st.agents) THEN st
  ELSE IF st.agents[i].state = "I"
       THEN LET d == Draw(pat, st.k)
                st1 == [st EXCEPT !.k = @ + 1,
                                  !.recoveries = Append(@, [agent |-> st.agents[i].id,
                                                            draw |-> d])]
            IN IF Recovers(d, recoveryRate)
               THEN RecoveryPhase([st1 EXCEPT !.agents[i].state = "R"],
                                  i + 1, recoveryRate, pat)
               ELSE RecoveryPhase(st1, i + 1, recoveryRate, pat)
       ELSE RecoveryPhase(st, i + 1, recoveryRate, pat)

\* simulateStep(network, spreadRate, recoveryRate, iter): the agents after
\* the call, the returned set (active) and the log of the passes
simulateStep_Mut(ags, lys, spreadRate, recoveryRate, iter, pat) ==
  LET st0 == [agents |-> ags, active |-> {}, passes |-> <<>>,
              recoveries |-> <<>>, k |-> 0]
      st1 == RecoveryPhase(st0, 1, recoveryRate, pat)
  IN SpreadLayers(st1, lys, 1, spreadRate, iter, pat)
simulateStep(ags, lys, spreadRate, recoveryRate, iter, pat) ==
  LET st0 == [agents |-> ags, active |-> {}, passes |-> <<>>,
              recoveries |-> <<>>, k |-> 0]
      st1 == SpreadLayers(st0, lys, 1, spreadRate, iter, pat)
  IN RecoveryPhase(st1, 1, recoveryRate, pat)

\* ------------------------------------------------------------------------
\* seedInfected
\* ------------------------------------------------------------------------

\* Reset everyone to S, lines 227-231
resetAgent_KeepState(agent, numLayers) ==
  [agent EXCEPT !.infectedByLayer = null, !.infectedCount = Zeros(numLayers)]
resetAgent_Mut(agent, numLayers) ==
  [agent EXCEPT !.state = "S", !.infectedCount = Zeros(numLayers)]
resetAgent(agent, numLayers) ==
  [agent EXCEPT !.state = "S", !.infectedByLayer = null,
                !.infectedCount = Zeros(numLayers)]

\* let safeCount = Math.min(count, n)
safeCount_Mut(count, n) == Min(count, n - 1)
safeCount(count, n) == Min(count, n)

\* while (chosen.size < safeCount) chosen.add(Math.floor(Math.random() * n)).
\* The draws of a call repeat with period Len(pat): when one whole period
\* adds nothing to chosen the loop never ends (done = FALSE).
RECURSIVE PickSeeds(_, _, _, _, _, _)
PickSeeds(chosen, target, n, pat, k, idle) ==
  IF Cardinality(chosen) >= target THEN [chosen |-> chosen, done |-> TRUE]
  ELSE IF idle >= Len(pat) THEN [chosen |-> chosen, done |-> FALSE]
  ELSE LET id == RandomIndex(Draw(pat, k), n)
       IN IF id \in chosen
          THEN PickSeeds(chosen, target, n, pat, k + 1, idle + 1)
          ELSE PickSeeds(chosen \cup {id}, target, n, pat, k + 1, 0)

\* seedInfected(network, count)
seedInfected_Mut(ags, lys, count, pat) ==
  LET n == Len(ags)
      picked == PickSeeds({}, safeCount(count, n), n, pat, 0, 0)
  IN [agents |-> [i \in 1..n |->
                    IF (i - 1) \in picked.chosen
                    THEN [newAgent(i, Len(lys)) EXCEPT !.state = "I"]
                    ELSE newAgent(i, Len(lys))],
      chosen |-> picked.chosen,
      done |-> picked.done]
seedInfected(ags, lys, count, pat) ==
  LET reset == [i \in 1..Len(ags) |-> resetAgent(ags[i], Len(lys))]
      n == Len(ags)
      picked == PickSeeds({}, safeCount(count, n), n, pat, 0, 0)
  IN [agents |-> [i \in 1..n |->
                    IF (i - 1) \in picked.chosen
                    THEN [reset[i] EXCEPT !.state = "I"]
                    ELSE reset[i]],
      chosen |-> picked.chosen,
      done |-> picked.done]

\* ------------------------------------------------------------------------
\* getStats
\* ------------------------------------------------------------------------

RECURSIVE StatsLoop(_, _, _)
StatsLoop(ags, i, stats) ==
  IF i > Len(ags) THEN stats
  ELSE IF ags[i].state = "S"
       THEN StatsLoop(ags, i + 1, [stats EXCEPT !.susceptible = @ + 1])
       ELSE IF ags[i].state = "I"
            THEN StatsLoop(ags, i + 1, [stats EXCEPT !.infected = @ + 1])
            ELSE StatsLoop(ags, i + 1, [stats EXCEPT !.recovered = @ + 1])

getStats_Mut(ags) ==
  LET s == StatsLoop(ags, 1, [susceptible |-> 0, infected |-> 0, recovered |-> 0])
  IN [s EXCEPT !.recovered = Len(ags) - s.susceptible]
getStats(ags) ==
  StatsLoop(ags, 1, [susceptible |-> 0, infected |-> 0, recovered |-> 0])

\* ------------------------------------------------------------------------
\* State.  agents and layers are the SimNetwork.  The other variables record
\* the most recent call: activeLayers is the set it returned (empty when it
\* returns nothing), call is its name and arguments, passes is the log of
\* the layer passes of a logged simulateStep, trace is the log of the local
\* state of a traced call.
\*
\* The page (state.ts): player is the Player object (timerId, isPlaying),
\* timers is the set of the window's pending timeouts, pageIter is the
\* page's counter iter, handler names the event handler that ran last.
\* ------------------------------------------------------------------------
VARIABLES agents, layers, activeLayers, call, passes, trace,
          player, timers, pageIter, handler

vars == <<agents, layers, activeLayers, call, passes, trace,
          player, timers, pageIter, handler>>

pageVars == <<player, timers, pageIter, handler>>

\* new Player(), let iter = 0, no timeout pending
InitPage ==
  /\ player = [timerId |-> null, isPlaying |-> FALSE]
  /\ timers = {}
  /\ pageIter = 0
  /\ handler = "none"

\* trace.recoveries: the recovery draws of a traced simulateStep; trace.adj,
\* trace.attempts and trace.rewirings: the adjacency matrix, the attachment
\* attempts and the rewirings of a traced generator call; trace.outcomes:
\* the outcomes of the next oneStep of a run
NoTrace == [recoveries |-> <<>>, adj |-> {}, attempts |-> <<>>, rewirings |-> <<>>,
            outcomes |-> <<>>]

\* call.cleared counts what the reset loop of seedInfected found to clear;
\* spreadRate, recoveryRate and iter are recorded by logged steps; seeds is
\* the set chosen by the most recent seedInfected
NoCleared == [recovered |-> 0, attributed |-> 0, counted |-> 0]

NoCall ==
  [op |-> "none", numAgents |-> 0, layerConfigs |-> <<>>, count |-> 0,
   cleared |-> NoCleared, spreadRate |-> 0, recoveryRate |-> 0, iter |-> 0,
   pat |-> <<>>, seeds |-> {}]

LayerConfigs ==
  [connectivity : ConnVals, frequency : FreqVals, topology : Topologies]

\* generateNetwork (state.ts) gives every layer the topology state.topology
LayerConfigLists ==
  {cfgs \in UNION {[1..l -> LayerConfigs] : l \in 0..MaxLayers} :
     \A i, j \in 1..Len(cfgs) : cfgs[i].topology = cfgs[j].topology}

\* No network yet (let simNetwork = null)
Init ==
  /\ agents = <<>>
  /\ layers = <<>>
  /\ activeLayers = {}
  /\ call = NoCall
  /\ passes = <<>>
  /\ InitPage
  /\ trace = NoTrace

\* A run builds its network once; a rebuilt network starts a new run
BuildNetwork ==
  /\ call.op = "none"
  /\ \E numAgents \in 0..MaxAgents, layerConfigs \in LayerConfigLists, pat \in Streams :
       LET net == buildNetwork(numAgents, layerConfigs, pat)
       IN /\ agents' = net.agents
          /\ layers' = net.layers
          /\ activeLayers' = {}
          /\ call' = [NoCall EXCEPT !.op = "buildNetwork", !.numAgents = numAgents,
                                    !.layerConfigs = layerConfigs]
          /\ passes' = <<>>
          /\ UNCHANGED pageVars
          /\ trace' = NoTrace

SeedInfected ==
  /\ call.op # "none"
  /\ \E count \in CountVals, pat \in Streams :
       LET r == seedInfected(agents, layers, count, pat)
           ids == 1..Len(agents)
           cleared ==
             [recovered |-> Cardinality({i \in ids : agents[i].state = "R"}),
              attributed |-> Cardinality({i \in ids : agents[i].infectedByLayer # null}),
              counted |-> Cardinality({i \in ids :
                            agents[i].infectedCount # Zeros(Len(layers))})]
       IN /\ r.done
          /\ agents' = r.agents
          /\ activeLayers' = {}
          /\ call' = [NoCall EXCEPT !.op = "seedInfected", !.count = count,
                                    !.cleared = cleared, !.seeds = r.chosen]
          /\ passes' = <<>>
          /\ UNCHANGED pageVars
          /\ trace' = NoTrace
          /\ UNCHANGED layers

\* simulateStep with any arguments
SimulateStep ==
  /\ call.op # "none"
  /\ \E spreadRate \in SpreadRates, recoveryRate \in RecoveryRates,
        iter \in IterVals, pat \in Streams :
       LET r == simulateStep(agents, layers, spreadRate, recoveryRate, iter, pat)
       IN /\ agents' = r.agents
          /\ activeLayers' = r.active
          /\ call' = [NoCall EXCEPT !.op = "simulateStep", !.seeds = call.seeds]
          /\ passes' = <<>>
          /\ UNCHANGED pageVars
          /\ trace' = NoTrace
          /\ UNCHANGED layers

\* simulateStep with its rates drawn from SR and RR, its arguments and the
\* log of its passes recorded
SimulateStepLogged(SR, RR) ==
  /\ call.op # "none"
  /\ \E spreadRate \in SR, recoveryRate \in RR, iter \in IterVals, pat \in Streams :
       LET r == simulateStep(agents, layers, spreadRate, recoveryRate, iter, pat)
       IN /\ agents' = r.agents
          /\ activeLayers' = r.active
          /\ call' = [NoCall EXCEPT !.op = "simulateStep", !.spreadRate = spreadRate,
                                    !.recoveryRate = recoveryRate, !.iter = iter,
                                    !.seeds = call.seeds]
          /\ passes' = r.passes
          /\ UNCHANGED pageVars
          /\ trace' = NoTrace
          /\ UNCHANGED layers

Next == BuildNetwork \/ SeedInfected \/ SimulateStep

Spec == Init /\ [][Next]_vars

\* Runs whose steps all use spreadRate = 1.0 and recoveryRate = 0
NextFiring == BuildNetwork \/ SeedInfected \/ SimulateStepLogged({10}, {0})

SpecFiring == Init /\ [][NextFiring]_vars

\* Runs whose steps all use recoveryRate = 1.0
NextRecoverAll == BuildNetwork \/ SeedInfected \/ SimulateStepLogged(SpreadRates, {10})

SpecRecoverAll == Init /\ [][NextRecoverAll]_vars

\* ------------------------------------------------------------------------
\* simulateStep on a network the caller constructed (SimNetwork is an
\* exported interface): every layer is the path 0 - 1 - ... - (n-1), all its
\* edges of one weight, 0.3 or 1.0.  Every step uses spreadRate = 1.0.
\* ------------------------------------------------------------------------
WeightVals == {30, 100}

RECURSIVE PathEdges(_, _, _)
PathEdges(i, numAgents, weight) ==
  IF i + 1 >= numAgents THEN <<>>
  ELSE <<Edge(i, i + 1, weight), Edge(i + 1, i, weight)>>
       \o PathEdges(i + 1, numAgents, weight)

PathLayerLists ==
  UNION {[1..l -> [weight : WeightVals, frequency : FreqVals]] : l \in 1..MaxLayers}

InitGiven ==
  \E numAgents \in 1..MaxAgents, given \in PathLayerLists :
    /\ agents = [i \in 1..numAgents |-> newAgent(i - 1, Len(given))]
    /\ layers = [l \in 1..Len(given) |->
                   [id |-> l - 1,
                    edges |-> PathEdges(0, numAgents, given[l].weight),
                    connectivity |-> 10,
                    frequency |-> given[l].frequency]]
    /\ activeLayers = {}
    /\ call = [NoCall EXCEPT !.op = "given"]
    /\ passes = <<>>
    /\ InitPage
    /\ trace = NoTrace

NextSpreadAll == SeedInfected \/ SimulateStepLogged({10}, {0, 10})

SpecSpreadAll == InitGiven /\ [][NextSpreadAll]_vars

\* ------------------------------------------------------------------------
\* Traced steps on a caller-constructed chain 0 - 1 - 2: long enough for an
\* agent infected in a pass to have a Susceptible neighbour of its own.
\* ------------------------------------------------------------------------
ChainSizes == {3}

\* Every edge of the chain has weight 1.0
ChainLayerLists ==
  UNION {[1..l -> [weight : {100}, frequency : FreqVals]] : l \in 1..MaxLayers}

InitChain ==
  \E numAgents \in ChainSizes, given \in ChainLayerLists :
    /\ agents = [i \in 1..numAgents |-> newAgent(i - 1, Len(given))]
    /\ layers = [l \in 1..Len(given) |->
                   [id |-> l - 1,
                    edges |-> PathEdges(0, numAgents, given[l].weight),
                    connectivity |-> 10,
                    frequency |-> given[l].frequency]]
    /\ activeLayers = {}
    /\ call = [NoCall EXCEPT !.op = "given"]
    /\ passes = <<>>
    /\ InitPage
    /\ trace = NoTrace

\* simulateStep with its arguments, the log of its passes and its recovery
\* draws recorded
SimulateStepTraced(SR, RR) ==
  /\ call.op # "none"
  /\ \E spreadRate \in SR, recoveryRate \in RR, iter \in IterVals, pat \in Streams :
       LET r == simulateStep(agents, layers, spreadRate, recoveryRate, iter, pat)
       IN /\ agents' = r.agents
          /\ activeLayers' = r.active
          /\ call' = [NoCall EXCEPT !.op = "simulateStep", !.spreadRate = spreadRate,
                                    !.recoveryRate = recoveryRate, !.iter = iter,
                                    !.seeds = call.seeds]
          /\ passes' = r.passes
          /\ UNCHANGED pageVars
          /\ trace' = [NoTrace EXCEPT !.recoveries = r.recoveries]
          /\ UNCHANGED layers

NextChain == SeedInfected \/ SimulateStepTraced(SpreadRates, {5, 10})

SpecChain == InitChain /\ [][NextChain]_vars

\* ------------------------------------------------------------------------
\* A run of the simulation as the page drives it (state.ts): generateNetwork
\* builds and seeds the network, then every oneStep does iter++ and calls
\* simulateStep with that iter.  simulateStep reads iter only through
\* (iter - 1) % frequency, so iter is kept within one cycle of the
\* frequencies.  recoveryRate is positive in every step.
\* ------------------------------------------------------------------------
IterCycle == {1, 2}

\* iter++, within the cycle
NextIter(iter) == IF iter + 1 \in IterCycle THEN iter + 1 ELSE 1

PositiveRecoveryRates == {5, 10}

\* What the next oneStep does to the network, for every stream and rates it
\* may run with.  A state carries this table in trace.outcomes, so that
\* whether a step with a given recovery draw is possible is read off the
\* state.
StepChoices == Streams \X SpreadRates \X PositiveRecoveryRates

Outcomes(as, ls, iter) ==
  [x \in StepChoices |->
     simulateStep(as, ls, x[2], x[3], NextIter(iter), x[1])]

\* generateNetwork: buildNetwork, then seedInfected; iter = 0
GenerateNetwork ==
  /\ call.op = "none"
  /\ \E numAgents \in 0..MaxAgents, layerConfigs \in LayerConfigLists,
        count \in CountVals, pat \in Streams, seedPat \in Streams :
       LET net == buildNetwork(numAgents, layerConfigs, pat)
           seeded == seedInfected(net.agents, net.layers, count, seedPat)
       IN /\ seeded.done
          /\ agents' = seeded.agents
          /\ layers' = net.layers
          /\ activeLayers' = {}
          /\ call' = [NoCall EXCEPT !.op = "seedInfected", !.count = count,
                                    !.seeds = seeded.chosen]
          /\ passes' = <<>>
          /\ UNCHANGED pageVars
          /\ trace' = [NoTrace EXCEPT
                         !.outcomes = Outcomes(seeded.agents, net.layers, 0)]

\* oneStep with the draws of the stream pat
OneStep(pat) ==
  /\ call.op # "none"
  /\ \E spreadRate \in SpreadRates, recoveryRate \in PositiveRecoveryRates :
       LET iter == NextIter(call.iter)
           r == simulateStep(agents, layers, spreadRate, recoveryRate, iter, pat)
       IN /\ agents' = r.agents
          /\ activeLayers' = r.active
          /\ call' = [NoCall EXCEPT !.op = "simulateStep", !.spreadRate = spreadRate,
                                    !.recoveryRate = recoveryRate, !.iter = iter,
                                    !.seeds = call.seeds]
          /\ passes' = <<>>
          /\ UNCHANGED pageVars
          /\ trace' = [NoTrace EXCEPT
                         !.recoveries = r.recoveries,
                         !.outcomes = Outcomes(r.agents, layers, iter)]
          /\ UNCHANGED layers

NextRun == GenerateNetwork \/ \E pat \in Streams : OneStep(pat)

\* The oneStep of the choice x, taken from the table of the state
TabulatedStep(x) ==
  /\ call.op # "none"
  /\ LET iter == NextIter(call.iter)
         r == trace.outcomes[x]
     IN /\ agents' = r.agents
        /\ activeLayers' = r.active
        /\ call' = [NoCall EXCEPT !.op = "simulateStep", !.spreadRate = x[2],
                                  !.recoveryRate = x[3], !.iter = iter,
                                  !.seeds = call.seeds]
        /\ passes' = <<>>
        /\ UNCHANGED pageVars
        /\ trace' = [NoTrace EXCEPT
                       !.recoveries = r.recoveries,
                       !.outcomes = Outcomes(r.agents, layers, iter)]
        /\ UNCHANGED layers

\* A step in which the recovery draw of agent id is below recoveryRate
RecoveryDraw(id) ==
  \E x \in StepChoices :
    /\ call.op # "none"
    /\ \E n \in 1..Len(trace.outcomes[x].recoveries) :
         /\ trace.outcomes[x].recoveries[n].agent = id
         /\ trace.outcomes[x].recoveries[n].draw < x[3]
    /\ TabulatedStep(x)

\* Fair draws: an agent that stays Infected eventually draws below
\* recoveryRate.  The step changes call.iter, so a step is a change of call.
FairDraws == \A id \in 0..(MaxAgents - 1) : WF_call(RecoveryDraw(id))

SpecRun == Init /\ [][NextRun]_vars /\ FairDraws

\* ------------------------------------------------------------------------
\* The generators on their own: buildNetwork with a single layer, over more
\* agents, connectivities and draws, with the generator's adjacency matrix
\* and attachment attempts traced.
\* ------------------------------------------------------------------------
MaxNodes == 5

GenDraws == {0, 4, 9}
GenStreams == GenDraws \X GenDraws \X GenDraws
GenConns == {0, 3, 5, 10}

BuildLayerOf(topology) ==
  /\ call.op = "none"
  /\ \E numAgents \in 0..MaxNodes, connectivity \in GenConns, pat \in GenStreams :
       LET config == [connectivity |-> connectivity, frequency |-> 1,
                      topology |-> topology]
           net == buildNetwork(numAgents, <<config>>, pat)
           sw == SmallWorldAdj(numAgents, connectivity, pat, 0)
           sf == ScaleFreeAdj(numAgents, connectivity, pat, 0)
       IN /\ agents' = net.agents
          /\ layers' = net.layers
          /\ activeLayers' = {}
          /\ call' = [NoCall EXCEPT !.op = "buildNetwork", !.numAgents = numAgents,
                                    !.layerConfigs = <<config>>, !.pat = pat]
          /\ passes' = <<>>
          /\ UNCHANGED pageVars
          /\ trace' = IF topology = "smallworld"
                      THEN [NoTrace EXCEPT !.adj = sw.adj, !.rewirings = sw.rewirings]
                      ELSE IF topology = "scalefree"
                           THEN [NoTrace EXCEPT !.adj = sf.adj,
                                                !.attempts = sf.attempts]
                           ELSE NoTrace

NextGen ==
  \/ BuildLayerOf("random")
  \/ BuildLayerOf("smallworld")
  \/ BuildLayerOf("scalefree")

SpecGen == Init /\ [][NextGen]_vars

\* ------------------------------------------------------------------------
\* The Player and the handlers of the page that drive it (state.ts).  A
\* handler runs to its end before the next one starts.  w is the pair of the
\* Player object and the window's pending timeouts.
\* ------------------------------------------------------------------------
MaxIter == 3

PageSpreadRates == {10}

PageRecoveryRates == {5}

PageCounts == {1}

Window == [player |-> player, timers |-> timers]

\* window.setTimeout returns an id that names no other timeout, pending or
\* remembered: the least one
NewTimerId(w) ==
  LET used == w.timers \cup {w.player.timerId}
  IN CHOOSE n \in 1..(Cardinality(used) + 1) :
       /\ n \notin used
       /\ \A m \in 1..(n - 1) : m \in used

\* scheduleNext: this.timerId = window.setTimeout(...)
scheduleNext(w) ==
  LET id == NewTimerId(w)
  IN [player |-> [w.player EXCEPT !.timerId = id],
      timers |-> w.timers \cup {id}]

\* pause: clearTimeout(this.timerId) when not null; isPlaying = false
pause(w) ==
  [player |-> [timerId |-> null, isPlaying |-> FALSE],
   timers |-> IF w.player.timerId # null
              THEN w.timers \ {w.player.timerId}
              ELSE w.timers]

\* play: pause(), isPlaying = true, scheduleNext()
play_Mut(w) ==
  scheduleNext([w EXCEPT !.player.isPlaying = TRUE])
play(w) ==
  scheduleNext([pause(w) EXCEPT !.player.isPlaying = TRUE])

\* playOrPause
playOrPause(w) ==
  IF w.player.isPlaying
  THEN pause(w)
  ELSE play([w EXCEPT !.player.isPlaying = TRUE])

\* oneStep: iter++, then simulateStep with that iter
oneStep(pat) ==
  /\ pageIter' = pageIter + 1
  /\ \E spreadRate \in PageSpreadRates, recoveryRate \in PageRecoveryRates :
       LET r == simulateStep(agents, layers, spreadRate, recoveryRate,
                             pageIter + 1, pat)
       IN /\ agents' = r.agents
          /\ activeLayers' = r.active
          /\ call' = [NoCall EXCEPT !.op = "simulateStep", !.spreadRate = spreadRate,
                                    !.recoveryRate = recoveryRate,
                                    !.iter = pageIter + 1, !.seeds = call.seeds]
          /\ passes' = <<>>
          /\ trace' = NoTrace
          /\ UNCHANGED layers

\* The handlers below run on a page whose startup reset has built simNetwork
Started == call.op # "none"

\* click on the play/pause button
PlayOrPause ==
  /\ Started
  /\ LET w == playOrPause(Window)
     IN /\ player' = w.player
        /\ timers' = w.timers
  /\ handler' = "playOrPause"
  /\ UNCHANGED <<agents, layers, activeLayers, call, passes, trace, pageIter>>

\* player.play()
Play ==
  /\ Started
  /\ LET w == play(Window)
     IN /\ player' = w.player
        /\ timers' = w.timers
  /\ handler' = "play"
  /\ UNCHANGED <<agents, layers, activeLayers, call, passes, trace, pageIter>>

\* player.pause()
Pause ==
  /\ Started
  /\ LET w == pause(Window)
     IN /\ player' = w.player
        /\ timers' = w.timers
  /\ handler' = "pause"
  /\ UNCHANGED <<agents, layers, activeLayers, call, passes, trace, pageIter>>

\* click on the next-step button: player.pause(), oneStep()
NextStepButton ==
  /\ Started
  /\ pageIter < MaxIter
  /\ LET w == pause(Window)
     IN /\ player' = w.player
        /\ timers' = w.timers
  /\ \E pat \in Streams : oneStep(pat)
  /\ handler' = "nextStep"

\* reset: player.pause(), iter = 0, then generateNetwork (which seeds one
\* stream for buildNetwork and seedInfected), or seedInfected on the network
\* there is
Reset(keepNetwork) ==
  /\ LET w == pause(Window)
     IN /\ player' = w.player
        /\ timers' = w.timers
  /\ pageIter' = 0
  /\ handler' = "reset"
  /\ activeLayers' = {}
  /\ passes' = <<>>
  /\ trace' = NoTrace
  /\ IF ~keepNetwork \/ ~Started
     THEN \E layerConfigs \in LayerConfigLists, count \in PageCounts,
             pat \in Streams :
            LET net == buildNetwork(MaxAgents, layerConfigs, pat)
                seeded == seedInfected(net.agents, net.layers, count, pat)
            IN /\ seeded.done
               /\ agents' = seeded.agents
               /\ layers' = net.layers
               /\ call' = [NoCall EXCEPT !.op = "seedInfected", !.count = count,
                                         !.seeds = seeded.chosen]
     ELSE \E count \in PageCounts, seedPat \in Streams :
            LET seeded == seedInfected(agents, layers, count, seedPat)
            IN /\ seeded.done
               /\ agents' = seeded.agents
               /\ call' = [NoCall EXCEPT !.op = "seedInfected", !.count = count,
                                         !.seeds = seeded.chosen]
               /\ UNCHANGED layers

\* The timeout id comes due: it is pending no more, and its callback runs:
\* if (!this.isPlaying) return; oneStep(); this.scheduleNext()
TimerCallback(id) ==
  /\ id \in timers
  /\ IF ~player.isPlaying
     THEN /\ timers' = timers \ {id}
          /\ handler' = "timerReturn"
          /\ UNCHANGED <<agents, layers, activeLayers, call, passes, trace,
                         player, pageIter>>
     ELSE /\ pageIter < MaxIter
          /\ \E pat \in Streams : oneStep(pat)
          /\ LET w == scheduleNext([player |-> player, timers |-> timers \ {id}])
             IN /\ player' = w.player
                /\ timers' = w.timers
          /\ handler' = "timer"

NextPlayer ==
  \/ PlayOrPause
  \/ Play
  \/ Pause
  \/ NextStepButton
  \/ \E keepNetwork \in BOOLEAN : Reset(keepNetwork)
  \/ \E id \in timers : TimerCallback(id)

SpecPlayer == Init /\ [][NextPlayer]_vars

\* ------------------------------------------------------------------------
\* Properties
\* ------------------------------------------------------------------------
Ids == 1..Len(agents)

InState(x) == {i \in Ids : agents[i].state = x}

Passes == {passes[k] : k \in 1..Len(passes)}

\* The layers that fire on iter, read off the frequencies
Scheduled(iter) ==
  {layers[l].id : l \in {l \in 1..Len(layers) : (iter - 1) % layers[l].frequency = 0}}

\* C1: across simulateStep calls an agent's state only moves forward: a
\* Recovered agent stays Recovered and an Infected agent never becomes
\* Susceptible again.
C1_Monotonic ==
  [][call'.op = "simulateStep" =>
       /\ Len(agents') = Len(agents)
       /\ \A i \in Ids :
            /\ agents[i].state = "R" => agents'[i].state = "R"
            /\ agents[i].state = "I" => agents'[i].state \in {"I", "R"}]_vars

\* After a step one agent is Recovered while another is Infected
C1_Witness ==
  /\ call.op = "simulateStep"
  /\ InState("R") # {}
  /\ InState("I") # {}

C3_ActiveIffInfected ==
  call.op = "simulateStep" =>
    /\ \A L \in {layers[l].id : l \in 1..Len(layers)} :
         L \in activeLayers <=>
           \E p \in Passes :
             /\ p.layer = L
             /\ \E n \in 1..Len(p.infections) :
                  /\ p.infections[n].target \in p.susceptible
                  /\ agents[p.infections[n].target + 1].state # "S"
    /\ activeLayers \subseteq Scheduled(call.iter)

\* One layer infected somebody and another fired without infecting anyone
C3_Witness ==
  /\ call.op = "simulateStep"
  /\ \E p, q \in Passes :
       /\ p.infections # <<>> /\ p.layer \in activeLayers
       /\ q.infections = <<>> /\ q.layer \notin activeLayers

\* C4: after seedInfected(network, count) exactly min(count, numAgents)
\* agents are Infected and every other agent is Susceptible.
C4_SeedCount ==
  call.op = "seedInfected" =>
    /\ Cardinality(InState("I")) =
         (IF call.count < Len(agents) THEN call.count ELSE Len(agents))
    /\ InState("I") \cup InState("S") = Ids

\* seedInfected was asked for more agents than there are
C4_Witness ==
  /\ call.op = "seedInfected"
  /\ Len(agents) > 0
  /\ call.count > Len(agents)
  /\ InState("I") = Ids

\* C5: seedInfected is a full reset: it leaves no agent Recovered, every
\* agent with infectedByLayer = null and with infectedCount all zeros of
\* length layers.length.
C5_SeedResets ==
  call.op = "seedInfected" =>
    \A i \in Ids :
      /\ agents[i].state # "R"
      /\ agents[i].infectedByLayer = null
      /\ Len(agents[i].infectedCount) = Len(layers)
      /\ \A l \in 1..Len(layers) : agents[i].infectedCount[l] = 0

\* seedInfected ran on a network with a Recovered agent, an agent infected
\* by a layer and an agent that had infected others, and chose a seed
C5_Witness ==
  /\ call.op = "seedInfected"
  /\ call.cleared.recovered > 0
  /\ call.cleared.attributed > 0
  /\ call.cleared.counted > 0
  /\ InState("I") # {}

\* C7: getStats returns the number of agents in state S, I and R, and the
\* three counts sum to numAgents.
C7_Stats ==
  LET stats == getStats(agents)
  IN /\ stats.susceptible = Cardinality(InState("S"))
     /\ stats.infected = Cardinality(InState("I"))
     /\ stats.recovered = Cardinality(InState("R"))
     /\ stats.susceptible + stats.infected + stats.recovered = Len(agents)

\* After a step the network holds Infected and Recovered agents
C7_Witness ==
  /\ call.op = "simulateStep"
  /\ getStats(agents).infected > 0
  /\ getStats(agents).recovered > 0

\* C8: with recoveryRate = 1.0 no agent is Infected after simulateStep:
\* the agents Infected when a pass began and the agents infected during
\* the call are all Recovered.
C8_RecoverAll ==
  (call.op = "simulateStep" /\ call.recoveryRate = 10) =>
    /\ InState("I") = {}
    /\ \A p \in Passes :
         /\ \A n \in 1..Len(p.snapshot) : agents[p.snapshot[n] + 1].state = "R"
         /\ \A n \in 1..Len(p.infections) :
              agents[p.infections[n].target + 1].state = "R"

\* A step with recoveryRate = 1.0 began with an Infected agent, which
\* infected another agent
C8_Witness ==
  /\ call.op = "simulateStep" /\ call.recoveryRate = 10
  /\ \E p \in Passes : p.snapshot # <<>> /\ p.infections # <<>>

\* C9: with spreadRate = 1.0, an agent that is Susceptible and is joined by
\* an edge of weight 1.0, in a layer scheduled for this call, to an agent
\* Infected when that layer's pass begins, is not Susceptible when the
\* call returns.
C9_SpreadAll ==
  (call.op = "simulateStep" /\ call.spreadRate = 10) =>
    \A l \in 1..Len(layers) :
      (call.iter - 1) % layers[l].frequency = 0 =>
        \E p \in Passes :
          /\ p.layer = layers[l].id
          /\ \A e \in 1..Len(layers[l].edges) :
               LET edge == layers[l].edges[e]
               IN (/\ edge.weight = 100
                   /\ \E n \in 1..Len(p.snapshot) : p.snapshot[n] = edge.source
                   /\ edge.target \in p.susceptible)
                  => agents[edge.target + 1].state # "S"

\* A scheduled layer's pass began with an Infected agent joined to a
\* Susceptible one by an edge of weight 1.0
C9_Witness ==
  /\ call.op = "simulateStep" /\ call.spreadRate = 10
  /\ \E l \in 1..Len(layers), p \in Passes :
       /\ p.layer = layers[l].id
       /\ \E e \in 1..Len(layers[l].edges) :
            /\ layers[l].edges[e].weight = 100
            /\ \E n \in 1..Len(p.snapshot) :
                 p.snapshot[n] = layers[l].edges[e].source
            /\ layers[l].edges[e].target \in p.susceptible

\* C10: buildNetwork returns numAgents agents with ids 0..numAgents-1, all
\* Susceptible, infectedByLayer = null and infectedCount zero-filled of
\* length layerConfigs.length, and one layer per config entry, its id its
\* position and its connectivity and frequency those of the entry.
C10_BuildNetwork ==
  call.op = "buildNetwork" =>
    /\ Len(agents) = call.numAgents
    /\ \A i \in Ids :
         /\ agents[i].id = i - 1
         /\ agents[i].state = "S"
         /\ agents[i].infectedByLayer = null
         /\ Len(agents[i].infectedCount) = Len(call.layerConfigs)
         /\ \A l \in 1..Len(call.layerConfigs) : agents[i].infectedCount[l] = 0
    /\ Len(layers) = Len(call.layerConfigs)
    /\ \A l \in 1..Len(layers) :
         /\ layers[l].id = l - 1
         /\ layers[l].connectivity = call.layerConfigs[l].connectivity
         /\ layers[l].frequency = call.layerConfigs[l].frequency

\* buildNetwork built two agents and two layers of different frequency
C10_Witness ==
  /\ call.op = "buildNetwork"
  /\ call.numAgents = 2
  /\ Len(call.layerConfigs) = 2
  /\ call.layerConfigs[1].frequency # call.layerConfigs[2].frequency
  /\ layers[1].edges # <<>>

\* C11: in every state reached by buildNetwork followed by seedInfected and
\* simulateStep calls, the infectedCount of every agent has exactly
\* layers.length entries.
C11_CountLength ==
  \A i \in Ids : Len(agents[i].infectedCount) = Len(layers)

\* A step incremented the entry of the last layer in some agent's
\* infectedCount
C11_Witness ==
  /\ call.op = "simulateStep"
  /\ Len(layers) = MaxLayers
  /\ \E i \in Ids :
       /\ Len(agents[i].infectedCount) = Len(layers)
       /\ agents[i].infectedCount[Len(layers)] > 0

\* The configuration of the layer a traced generator call built
Built == call.layerConfigs[1]

EdgeSet(l) == {layers[l].edges[e] : e \in 1..Len(layers[l].edges)}

\* C12: the edge list a generator returns holds (u, v) with weight w exactly
\* when it holds (v, u) with the same weight w.
C12_MatchedPairs ==
  \A l \in 1..Len(layers) :
    \A e \in EdgeSet(l) : Edge(e.target, e.source, e.weight) \in EdgeSet(l)

\* A generator returned edges of two different weights
C12_Witness ==
  /\ call.op = "buildNetwork" /\ call.pat # <<>>
  /\ \E e, f \in EdgeSet(1) : e.weight # f.weight

\* C13: with numAgents = 0 or numAgents = 1 every generator returns an
\* empty edge list.
C13_NoEdgesBelowTwo ==
  (call.op = "buildNetwork" /\ call.numAgents < 2) =>
    \A l \in 1..Len(layers) : layers[l].edges = <<>>

\* A layer was built for one agent with connectivity 1.0
C13_Witness ==
  /\ call.op = "buildNetwork" /\ call.pat # <<>>
  /\ call.numAgents = 1
  /\ Built.connectivity = 10
  /\ layers[1].edges = <<>>

\* C14: buildSmallWorldLayer never sets adj[i][i], and the list it returns
\* has no edge with source = target and at most one edge per ordered pair.
C14_SmallWorldSimple ==
  (call.op = "buildNetwork" /\ call.pat # <<>> /\ Built.topology = "smallworld") =>
    /\ \A i \in 0..(call.numAgents - 1) : <<i, i>> \notin trace.adj
    /\ \A e \in 1..Len(layers[1].edges) :
         /\ layers[1].edges[e].source # layers[1].edges[e].target
         /\ \A f \in 1..Len(layers[1].edges) :
              (/\ layers[1].edges[f].source = layers[1].edges[e].source
               /\ layers[1].edges[f].target = layers[1].edges[e].target) => f = e

\* The rewiring changed the ring lattice
C14_Witness ==
  /\ call.op = "buildNetwork" /\ call.pat # <<>> /\ Built.topology = "smallworld"
  /\ trace.adj # RingLattice(call.numAgents,
                             SmallWorldK(call.numAgents, Built.connectivity))
  /\ \E i, j \in 0..(call.numAgents - 1) :
       /\ <<i, j>> \in trace.adj
       /\ <<i, j>> \notin RingLattice(call.numAgents,
                                      SmallWorldK(call.numAgents, Built.connectivity))

\* Degree of node 0 in an adjacency matrix
DegreeOfZero(adj) == Cardinality({p \in adj : p[1] = 0})

\* C15: with the same connectivity and the same draws, node 0 of the
\* scale-free graph built for numAgents + 1 has at least the degree it has
\* in the graph built for numAgents (numAgents >= 1).
C15_DegreeMonotone ==
  (/\ call.op = "buildNetwork" /\ call.pat # <<>>
   /\ Built.topology = "scalefree" /\ call.numAgents >= 1) =>
    DegreeOfZero(trace.adj) <=
      DegreeOfZero(ScaleFreeAdj(call.numAgents + 1, Built.connectivity,
                                call.pat, 0).adj)

\* A graph with attached nodes in which node 0 gains an edge when one more
\* agent is added
C15_Witness ==
  /\ call.op = "buildNetwork" /\ call.pat # <<>>
  /\ Built.topology = "scalefree"
  /\ trace.attempts # <<>>
  /\ DegreeOfZero(trace.adj) <
       DegreeOfZero(ScaleFreeAdj(call.numAgents + 1, Built.connectivity,
                                 call.pat, 0).adj)

\* The attempts of new node i in the log of buildScaleFreeLayer
AttemptsOf(i) == {a \in 1..Len(trace.attempts) : trace.attempts[a].node = i}

\* C20: in buildScaleFreeLayer an attempt whose threshold selects a node
\* that is already a neighbour of the new node adds no edge, and each new
\* node i gains at most m edges from at most 3 * i attempts.
C20_DuplicateRejected ==
  (call.op = "buildNetwork" /\ call.pat # <<>> /\ Built.topology = "scalefree") =>
    /\ \A a \in 1..Len(trace.attempts) :
         (trace.attempts[a].selected >= 0 /\ trace.attempts[a].neighbour)
           => trace.attempts[a].target = -1
    /\ \A i \in 0..(call.numAgents - 1) :
         /\ Cardinality({a \in AttemptsOf(i) : trace.attempts[a].target >= 0})
              <= ScaleFreeM(Built.connectivity)
         /\ Cardinality(AttemptsOf(i)) <= 3 * i

\* C16 as stated: on a network with an empty layer list no simulateStep
\* call changes the state of any agent.
C16_EmptyNeverChanges ==
  [][(call'.op = "simulateStep" /\ layers = <<>>) =>
       \A i \in Ids : agents'[i].state = agents[i].state]_vars

\* C16 amended: on a network with an empty layer list no simulateStep call
\* infects anyone: it returns the empty set and leaves every agent as it
\* was, except that an Infected agent may become Recovered.
C16_EmptyOnlyRecovers ==
  [][(call'.op = "simulateStep" /\ layers = <<>>) =>
       /\ activeLayers' = {}
       /\ Len(agents') = Len(agents)
       /\ \A i \in Ids :
            \/ agents'[i] = agents[i]
            \/ /\ agents[i].state = "I"
               /\ agents'[i] = [agents[i] EXCEPT !.state = "R"]]_vars

\* After a step on a network without layers one agent is Recovered and
\* another is still Susceptible
C16_Witness ==
  /\ call.op = "simulateStep"
  /\ layers = <<>>
  /\ InState("R") # {}
  /\ InState("S") # {}

\* The ids of the agents in state I
InfectedIds(ags) == {i \in 0..(Len(ags) - 1) : ags[i + 1].state = "I"}

\* The agents a logged pass infected
TargetsOf(p) == {p.infections[n].target : n \in 1..Len(p.infections)}

\* The agents Infected when pass k of a call begins: those Infected when
\* the call began and those infected by its earlier passes
InfectedAtPass(ags, ps, k) ==
  InfectedIds(ags) \cup UNION {TargetsOf(ps[q]) : q \in 1..(k - 1)}

\* C17: the agents that spread in a firing layer's pass are exactly the
\* agents Infected when that pass begins.  An agent infected during the pass
\* infects nobody in it; an agent infected by an earlier layer of the same
\* call is among the spreaders of a later layer (with spreadRate = 1.0 and
\* weight 1.0 every neighbour of a spreader that is Susceptible when the
\* pass begins is infected in the pass).
C17_SnapshotPerLayer ==
  [][call'.op = "simulateStep" =>
       \A k \in 1..Len(passes') :
         LET p == passes'[k]
             before == InfectedAtPass(agents, passes', k)
             edges == layers[p.layer + 1].edges
         IN /\ {p.snapshot[n] : n \in 1..Len(p.snapshot)} = before
            /\ \A n \in 1..Len(p.infections) : p.infections[n].source \in before
            /\ call'.spreadRate = 10 =>
                 \A e \in 1..Len(edges) :
                   (/\ edges[e].weight = 100
                    /\ edges[e].source \in before
                    /\ edges[e].target \in p.susceptible)
                   => edges[e].target \in TargetsOf(p)]_vars

\* The first pass of a call infected an agent whose Susceptible neighbour
\* stayed Susceptible until the second pass, in which that agent infected it
C17_Witness ==
  /\ call.op = "simulateStep"
  /\ Len(passes) = 2
  /\ \E n \in 1..Len(passes[1].infections), m \in 1..Len(passes[2].infections) :
       /\ passes[2].infections[m].source = passes[1].infections[n].target
       /\ passes[2].infections[m].target \in passes[2].susceptible

\* C18: recovery is evaluated once per call, after all spreading.  Every
\* agent Infected when the call begins is in the snapshot of every pass of
\* the call; every agent Infected when spreading ends, and no other, gets
\* exactly one recovery draw and is Recovered after the call iff the draw is
\* below recoveryRate.
C18_RecoveryOnceAtEnd ==
  [][call'.op = "simulateStep" =>
       LET start == InfectedIds(agents)
           atEnd == InfectedAtPass(agents, passes', Len(passes') + 1)
           rec == trace'.recoveries
       IN /\ \A k \in 1..Len(passes') :
               start \subseteq {passes'[k].snapshot[n] : n \in 1..Len(passes'[k].snapshot)}
          /\ {rec[n].agent : n \in 1..Len(rec)} = atEnd
          /\ Len(rec) = Cardinality(atEnd)
          /\ \A n \in 1..Len(rec) :
               agents'[rec[n].agent + 1].state =
                 (IF rec[n].draw < call'.recoveryRate THEN "R" ELSE "I")
          /\ \A i \in Ids :
               (i - 1) \notin atEnd => agents'[i].state = agents[i].state]_vars

\* An agent went from Susceptible to Recovered within one call while
\* another agent's draw left it Infected
C18_Witness ==
  /\ call.op = "simulateStep"
  /\ \E p \in Passes : \E t \in TargetsOf(p) :
       /\ t \in p.susceptible
       /\ agents[t + 1].state = "R"
  /\ \E n \in 1..Len(trace.recoveries) :
       agents[trace.recoveries[n].agent + 1].state = "I"

\* C19: an agent infected during layer L's pass has infectedByLayer = L
\* after the call; simulateStep changes no infectedByLayer that already
\* holds a layer id, nor that of an agent it does not infect in the call.
C19_InfectedByLayerSetOnce ==
  [][call'.op = "simulateStep" =>
       \A i \in Ids :
         LET by == {passes'[k].layer : k \in {k \in 1..Len(passes') :
                                                (i - 1) \in TargetsOf(passes'[k])}}
         IN /\ \A L \in by : agents'[i].infectedByLayer = L
            /\ agents[i].infectedByLayer # null
                 => agents'[i].infectedByLayer = agents[i].infectedByLayer
            /\ by = {} => agents'[i].infectedByLayer = agents[i].infectedByLayer]_vars

\* A call infected an agent in a layer's pass while an agent infected in an
\* earlier call kept its infectedByLayer
C19_Witness ==
  /\ call.op = "simulateStep"
  /\ \E p \in Passes : \E t \in TargetsOf(p) :
       /\ agents[t + 1].infectedByLayer = p.layer
       /\ \E i \in Ids :
            /\ agents[i].infectedByLayer # null
            /\ \A q \in Passes : (i - 1) \notin TargetsOf(q)

\* The ring lattice of the traced small-world call
Lattice == RingLattice(call.numAgents, SmallWorldK(call.numAgents, Built.connectivity))

\* C21: in buildSmallWorldLayer each rewiring removes one lattice edge and
\* adds at most one edge, from the same source to a target that is not the
\* source and was not its neighbour; the final layer has as many undirected
\* edges as the ring lattice (numAgents * floor(k / 2)) less one for each
\* rewiring that ended without a free target, so never more.
C21_RewiringNeverAddsEdges ==
  (call.op = "buildNetwork" /\ call.pat # <<>> /\ Built.topology = "smallworld") =>
    LET rw == trace.rewirings
        failed == {n \in 1..Len(rw) : ~rw[n].added}
        kk == SmallWorldK(call.numAgents, Built.connectivity)
    IN /\ \A n \in 1..Len(rw) :
            /\ <<rw[n].source, rw[n].old>> \in Lattice
            /\ \A q \in 1..Len(rw) :
                 (rw[q].source = rw[n].source /\ rw[q].old = rw[n].old) => q = n
            /\ rw[n].added <=> (~rw[n].self /\ ~rw[n].neighbour)
       /\ Cardinality(Lattice) = 2 * call.numAgents * (kk \div 2)
       /\ Len(layers[1].edges) = Cardinality(trace.adj)
       /\ Cardinality(trace.adj) = Cardinality(Lattice) - 2 * Cardinality(failed)
       /\ Cardinality(trace.adj) <= Cardinality(Lattice)

\* One rewiring found a free target and another ended its retries without
\* one, leaving fewer edges than the lattice
C21_Witness ==
  /\ call.op = "buildNetwork" /\ call.pat # <<>> /\ Built.topology = "smallworld"
  /\ \E n, q \in 1..Len(trace.rewirings) :
       /\ trace.rewirings[n].added
       /\ trace.rewirings[n].newJ # trace.rewirings[n].old
       /\ ~trace.rewirings[q].added
  /\ Cardinality(trace.adj) < Cardinality(Lattice)

\* C22: every generator call returns an edge list; the small-world retry
\* loop makes at most numAgents retries per rewired edge and the scale-free
\* attachment loop makes at most 3 * i attempts for node i.
C22_BoundedLoops ==
  (call.op = "buildNetwork" /\ call.pat # <<>>) =>
    /\ Len(layers) = 1
    /\ Len(layers[1].edges) <= call.numAgents * call.numAgents
    /\ \A n \in 1..Len(trace.rewirings) :
         trace.rewirings[n].retries <= call.numAgents
    /\ \A i \in 0..(call.numAgents - 1) : Cardinality(AttemptsOf(i)) <= 3 * i

\* A new node of a scale-free layer used all its 3 * i attempts and gained
\* fewer than m edges
C22_Witness ==
  /\ call.op = "buildNetwork" /\ call.pat # <<>> /\ Built.topology = "scalefree"
  /\ \E i \in 1..(call.numAgents - 1) :
       /\ Cardinality(AttemptsOf(i)) = 3 * i
       /\ Cardinality({a \in AttemptsOf(i) : trace.attempts[a].target >= 0})
            < ScaleFreeM(Built.connectivity)

\* C23: seedInfected and simulateStep leave the layers as they are (ids,
\* edge lists, weights, connectivity, frequency) and keep the agent set:
\* the same number of agents with the same ids.
C23_Frame ==
  [][call'.op \in {"seedInfected", "simulateStep"} =>
       /\ layers' = layers
       /\ Len(agents') = Len(agents)
       /\ \A i \in Ids :
            /\ agents'[i].id = agents[i].id
            /\ DOMAIN agents'[i] = DOMAIN agents[i]]_vars

\* After a step on a network with edges an agent has infected another
C23_Witness ==
  /\ call.op = "simulateStep"
  /\ \E l \in 1..Len(layers) : layers[l].edges # <<>>
  /\ \E i \in Ids : agents[i].infectedByLayer # null
  /\ \E i \in Ids : agents[i].infectedCount # Zeros(Len(layers))

\* C24: a Susceptible agent has infectedByLayer = null; an agent whose
\* infectedByLayer is not null is Infected or Recovered and holds a layer id
\* in [0, layers.length); the agents that are not Susceptible and have
\* infectedByLayer = null are exactly the seeds of the last seedInfected.
C24_SeedSentinel ==
  \A i \in Ids :
    /\ agents[i].state = "S" => agents[i].infectedByLayer = null
    /\ agents[i].infectedByLayer # null =>
         /\ agents[i].state \in {"I", "R"}
         /\ agents[i].infectedByLayer \in 0..(Len(layers) - 1)
    /\ (agents[i].state # "S" /\ agents[i].infectedByLayer = null)
         <=> (i - 1) \in call.seeds

\* After a step a Recovered seed stands next to an agent infected by the
\* last layer
C24_Witness ==
  /\ call.op = "simulateStep"
  /\ \E i, j \in Ids :
       /\ agents[i].state = "R" /\ agents[i].infectedByLayer = null
       /\ (i - 1) \in call.seeds
       /\ agents[j].infectedByLayer = Len(layers) - 1
       /\ Len(layers) = MaxLayers

RECURSIVE SumCounts(_, _, _)
\* Sum over the agents i.. of infectedCount[L]
SumCounts(ags, i, L) ==
  IF i > Len(ags) THEN 0
  ELSE ags[i].infectedCount[L + 1] + SumCounts(ags, i + 1, L)

RECURSIVE SumAllCounts(_, _)
\* Sum over the layers L.. of SumCounts
SumAllCounts(ags, L) ==
  IF L >= Len(layers) THEN 0
  ELSE SumCounts(ags, 1, L) + SumAllCounts(ags, L + 1)

\* C25: for every layer L the sum over the agents of infectedCount[L] is
\* the number of agents with infectedByLayer = L, and the number of agents
\* that are not Susceptible is the number of seeds plus the sum of all
\* infectedCount entries.
C25_Conservation ==
  /\ \A L \in 0..(Len(layers) - 1) :
       SumCounts(agents, 1, L) =
         Cardinality({i \in Ids : agents[i].infectedByLayer = L})
  /\ Cardinality({i \in Ids : agents[i].state # "S"}) =
       Cardinality(call.seeds) + SumAllCounts(agents, 0)

\* After a step one seed has infected the other agent
C25_Witness ==
  /\ call.op = "simulateStep"
  /\ Cardinality(call.seeds) = 1
  /\ SumAllCounts(agents, 0) = 1
  /\ InState("S") = {}

\* C26: with recoveryRate > 0, steps with iter increasing by 1 and fair
\* draws, a seeded network eventually has no Infected agent, and from a state
\* without Infected agents every simulateStep call changes no agent and
\* returns the empty set.
C26_EventuallyQuiet ==
  /\ (call.op = "seedInfected") ~> (InState("I") = {})
  /\ [][(call'.op = "simulateStep" /\ InState("I") = {})
         => (agents' = agents /\ activeLayers' = {})]_vars

\* The epidemic has ended: no agent is Infected after a step and some agent
\* is Recovered
\* a step that ran on a network with Recovered and Susceptible agents and no
\* Infected one: it drew for no recovery
C26_Witness ==
  /\ call.op = "simulateStep"
  /\ trace.recoveries = <<>>
  /\ InState("I") = {}
  /\ InState("R") # {}
  /\ InState("S") # {}

\* The table of a state is the table of its network and iter
OutcomesTabulated ==
  call.op # "none" => trace.outcomes = Outcomes(agents, layers, call.iter)

\* C27: under any interleaving of the handlers at most one step timer is
\* pending, a timer is pending only while isPlaying is true, pause, reset and
\* the next-step button leave the player paused with no timer pending, only
\* play and playOrPause start it again, and a timer callback runs only while
\* playing and advances iter by exactly 1.
C27_OneTimerWhilePlaying ==
  /\ [](/\ Cardinality(timers) <= 1
        /\ (timers # {} => player.isPlaying))
  /\ [][handler' \in {"pause", "reset", "nextStep"}
         => (~player'.isPlaying /\ timers' = {})]_vars
  /\ [][(~player.isPlaying /\ player'.isPlaying)
         => handler' \in {"play", "playOrPause"}]_vars
  /\ [][handler' \in {"timer", "timerReturn"}
         => (player.isPlaying /\ pageIter' = pageIter + 1)]_vars

\* the timer has fired for the second time in a row
C27_Witness ==
  /\ handler = "timer"
  /\ pageIter = 2
  /\ player.isPlaying
  /\ timers = {player.timerId}

====
